---- MODULE Spec2Model ----
\* Flight Dashboard (src/flightdup2.py): a Streamlit script that loads a
\* flight-price table through a cached loader, filters it by three sidebar
\* select boxes and renders tables and charts.  The model keeps, per browser
\* session, the widget state and the page rendered by the last script run,
\* and, shared by all sessions, the entry of the st.cache_data cache.
EXTENDS Integers, Sequences, FiniteSets, TLC

\* Largest number of data rows in the dataset file.
MaxRows == 2

\* Browser sessions connected to the app.
Sessions == {1, 2}

\* Dates the clock can show when the script runs (pd.to_datetime fills a
\* time-of-day text with the current date).
Today == {<<2019, 6, 1>>, <<2019, 6, 2>>}

\* ------------------------------------------------------------------ data

\* A text cell of the sheet (dtype object) holding the written fields.
Text(fields) == [dtype |-> "object", val |-> fields]

\* Rows the dataset file can hold.  The file is the processed dataset: every
\* cell is filled.  Date_of_Journey is written year-month-day, Dep_Time
\* hour:minute.
RowPool ==
  { [Airline |-> "IndiGo", Source |-> "Kolkata", Destination |-> "New Delhi",
     Total_Stops |-> "1 stop", Price |-> 400, Route |-> "CCU-BOM-DEL",
     Duration |-> "5h 25m",
     Date_of_Journey |-> Text(<<2019, 5, 1>>), Dep_Time |-> Text(<<5, 50>>)],
    [Airline |-> "IndiGo", Source |-> "Banglore", Destination |-> "Cochin",
     Total_Stops |-> "1 stop", Price |-> 300, Route |-> "BLR-BOM-COK",
     Duration |-> "7h 25m",
     Date_of_Journey |-> Text(<<2019, 3, 1>>), Dep_Time |-> Text(<<22, 20>>)],
    [Airline |-> "Air India", Source |-> "Banglore", Destination |-> "Cochin",
     Total_Stops |-> "non-stop", Price |-> 200, Route |-> "BLR-COK",
     Duration |-> "1h 30m",
     Date_of_Journey |-> Text(<<2019, 5, 9>>), Dep_Time |-> Text(<<5, 50>>)] }

\* The texts of the model in Python's string order (used by sorting).
Lex == << "1 stop", "Air India", "All", "Banglore", "Cochin", "IndiGo",
          "Kolkata", "New Delhi", "non-stop" >>

\* Contents the path data/Flight_datasets.xlsx can have: no file, or a sheet
\* of 0..MaxRows data rows under the header row.
NoFile == [exists |-> FALSE, sheet |-> <<>>]

RECURSIVE Sheets(_)
Sheets(n) ==
  IF n = 0 THEN {<<>>}
  ELSE Sheets(n - 1) \cup
       {Append(s, r) : s \in {t \in Sheets(n - 1) : Len(t) = n - 1}, r \in RowPool}

Files == {NoFile} \cup {[exists |-> TRUE, sheet |-> t] : t \in Sheets(MaxRows)}

VARIABLES
  file,    \* content of data/Flight_datasets.xlsx
  cache,   \* st.cache_data entry of load_data(), or NoEntry
  ran,     \* ran[s]: the script has run in session s
  sel,     \* sel[s]: widget state of the three select boxes
  out      \* out[s]: elements rendered by the last run of session s

vars == <<file, cache, ran, sel, out>>

NoEntry == [cached |-> FALSE, value |-> <<>>, elements |-> <<>>]

\* ---------------------------------------------------------------- pandas

\* pd.read_excel: the sheet's rows under a RangeIndex 0..n-1.
read_excel(sheet) ==
  [i \in 1..Len(sheet) |-> [index |-> i - 1] @@ sheet[i]]

\* DataFrame.empty
empty(df) == Len(df) = 0

\* (variant: the column as it is, repeats kept)
RECURSIVE unique_nodedup(_, _)
unique_nodedup(df, col) ==
  IF df = <<>> THEN <<>>
  ELSE <<Head(df)[col]>> \o unique_nodedup(Tail(df), col)

\* df[col].unique(): the distinct values of a column in order of first
\* appearance.
RECURSIVE unique(_, _)
unique(df, col) ==
  IF df = <<>> THEN <<>>
  ELSE LET rest == unique(SubSeq(df, 1, Len(df) - 1), col)
           v == df[Len(df)][col]
       IN IF \E i \in 1..Len(rest) : rest[i] = v THEN rest ELSE Append(rest, v)

\* df[mask]: the rows whose mask entry is true, in order, index kept.
RECURSIVE boolean_index(_, _)
boolean_index(df, mask) ==
  IF df = <<>> THEN <<>>
  ELSE (IF Head(mask) THEN <<Head(df)>> ELSE <<>>)
       \o boolean_index(Tail(df), Tail(mask))

\* pd.to_datetime on one cell: a date text becomes that day at midnight, a
\* time-of-day text becomes that time on the current date, a timestamp stays.
to_datetime(cell, today) ==
  IF cell.dtype = "datetime64[ns]" THEN cell
  ELSE IF Len(cell.val) = 3
    THEN [dtype |-> "datetime64[ns]",
          val |-> [year |-> cell.val[1], month |-> cell.val[2],
                   day |-> cell.val[3], hour |-> 0, minute |-> 0]]
    ELSE [dtype |-> "datetime64[ns]",
          val |-> [year |-> today[1], month |-> today[2], day |-> today[3],
                   hour |-> cell.val[1], minute |-> cell.val[2]]]

\* .dt.to_period('M').astype(str): the text "YYYY-MM", written here as the
\* number YYYYMM (same order, same equality).
to_period_M_str(ts) == ts.val.year * 100 + ts.val.month

\* .dt.hour
dt_hour(ts) == ts.val.hour

\* Position of a text in Python's string order.
LexRank(t) == CHOOSE i \in 1..Len(Lex) : Lex[i] = t

\* Sort rank of a group key component of column col.
KeyRank(col, v) == IF col = "Month" THEN v ELSE LexRank(v)

\* k1 < k2 for group keys over the columns cols (lexicographic).
KeyLess(cols, k1, k2) ==
  \E i \in 1..Len(cols) :
    /\ \A j \in 1..(i - 1) : k1[j] = k2[j]
    /\ KeyRank(cols[i], k1[i]) < KeyRank(cols[i], k2[i])

\* The key of a row under groupby(cols).
KeyOf(row, cols) == [i \in 1..Len(cols) |-> row[cols[i]]]

RECURSIVE SortKeys(_, _)
SortKeys(keys, cols) ==
  IF keys = {} THEN <<>>
  ELSE LET k == CHOOSE x \in keys : \A y \in keys \ {x} : KeyLess(cols, x, y)
       IN <<k>> \o SortKeys(keys \ {k}, cols)

RECURSIVE SumPrice(_)
SumPrice(rows) ==
  IF rows = <<>> THEN 0 ELSE Head(rows).Price + SumPrice(Tail(rows))

RECURSIVE Gcd(_, _)
Gcd(a, b) == IF b = 0 THEN a ELSE Gcd(b, a % b)

\* Series.mean() of the Price column of a non-empty group: sum / count, kept
\* as a fraction in lowest terms.
mean(rows) ==
  LET s == SumPrice(rows)
      n == Len(rows)
      g == Gcd(s, n)
  IN [num |-> s \div g, den |-> n \div g]

\* The rows of df whose key under cols is k.
RECURSIVE GroupRows(_, _, _)
GroupRows(df, cols, k) ==
  IF df = <<>> THEN <<>>
  ELSE (IF KeyOf(Head(df), cols) = k THEN <<Head(df)>> ELSE <<>>)
       \o GroupRows(Tail(df), cols, k)

\* df.groupby(cols)["Price"].mean().reset_index(): one row per key that
\* occurs, keys ascending.
groupby_mean(df, cols) ==
  LET keys == SortKeys({KeyOf(df[i], cols) : i \in 1..Len(df)}, cols)
  IN [i \in 1..Len(keys) |->
        [key |-> keys[i], Price |-> mean(GroupRows(df, cols, keys[i]))]]

\* ------------------------------------------------------------- rendering

\* One rendered element: the Streamlit call, its label or title, its data.
El(kind, label, data) == [kind |-> kind, label |-> label, data |-> data]

Fig(type, points) == [type |-> type, points |-> points]

\* (variant: the st.error call left out)
load_data_body_silent(f) ==
  IF ~f.exists
    THEN [value |-> <<>>, elements |-> <<>>]
    ELSE [value |-> read_excel(f.sheet), elements |-> <<>>]

\* The body of load_data(): the table read from the file, or, when the file
\* does not exist, st.error and an empty DataFrame.
load_data_body(f) ==
  IF ~f.exists
    THEN [value |-> <<>>,
          elements |-> <<El("error",
            "Processed dataset not found. Please run the processing script first.",
            <<>>)>>]
    ELSE [value |-> read_excel(f.sheet), elements |-> <<>>]

\* @st.cache_data around load_data(): on a miss the body runs and its return
\* value and the elements it rendered are stored; on a hit the stored
\* elements are replayed and the stored value is returned.
load_data(c, f) ==
  IF c.cached
    THEN [value |-> c.value, elements |-> c.elements]
    ELSE load_data_body(f)

\* (variant: the caller is handed the stored object itself, so what the
\* caller does to the table lands in the cache)
cache_after_run_shared(c, f, local) ==
  [cached |-> TRUE, value |-> local, elements |-> load_data(c, f).elements]

\* The cache entry once a run that called load_data() has finished, local
\* being the caller's table at the end of the run: st.cache_data hands each
\* caller its own copy of the stored value, so the entry keeps what
\* load_data() returned.
cache_after_run(c, f, local) ==
  [cached |-> TRUE, value |-> load_data(c, f).value,
   elements |-> load_data(c, f).elements]

\* ["All"] + list(df[col].unique())
options(df, col) == <<"All">> \o unique(df, col)

\* (variant: the destination test left out)
mask_row_no_destination(row, s) ==
  /\ (row.Airline = s.airline \/ s.airline = "All")
  /\ (row.Source = s.source \/ s.source = "All")

\* One entry of the boolean mask of the filter.
mask_row(row, s) ==
  /\ (row.Airline = s.airline \/ s.airline = "All")
  /\ (row.Source = s.source \/ s.source = "All")
  /\ (row.Destination = s.destination \/ s.destination = "All")

\* filtered_data = df[mask]
filtered_data(df, s) ==
  boolean_index(df, [i \in 1..Len(df) |-> mask_row(df[i], s)])

\* df after Date_of_Journey is converted and Month is added.
with_month(df, today) ==
  [i \in 1..Len(df) |->
     LET d == to_datetime(df[i].Date_of_Journey, today)
     IN [Month |-> to_period_M_str(d)]
        @@ [df[i] EXCEPT !.Date_of_Journey = d]]

\* df after Dep_Time is converted and Hour_of_Day is added.
with_hour(df, today) ==
  [i \in 1..Len(df) |->
     LET t == to_datetime(df[i].Dep_Time, today)
     IN [Hour_of_Day |-> dt_hour(t)] @@ [df[i] EXCEPT !.Dep_Time = t]]

\* Lines 45-47: the dataset preview.
Preview(df) ==
  << El("write", "Dataset Preview:", <<>>), El("dataframe", "df", df) >>

\* Lines 49-55: the sidebar title and the three select boxes, each showing
\* its options and its current value.
Sidebar(df, s) ==
  << El("sidebar.title", "Flight Data Insights", <<>>),
     El("sidebar.selectbox", "Select Airline",
        [options |-> options(df, "Airline"), value |-> s.airline]),
     El("sidebar.selectbox", "Select Source City",
        [options |-> options(df, "Source"), value |-> s.source]),
     El("sidebar.selectbox", "Select Destination City",
        [options |-> options(df, "Destination"), value |-> s.destination]) >>

\* Lines 64-66: the filtered table under its formatted heading.
FilteredTable(fd, s) ==
  << El("subheader",
        "Flights by Airline: {airline_filter}, from {source_city} to {destination_city}",
        <<s.airline, s.source, s.destination>>),
     El("dataframe", "filtered_data", fd) >>

\* px.box(df, x="Airline", y="Price", color="Airline")
fig_price_dist(df) ==
  Fig("box", [i \in 1..Len(df) |->
    [x |-> df[i].Airline, y |-> df[i].Price, color |-> df[i].Airline]])

\* px.line over df.groupby(['Month', 'Destination'])['Price'].mean()
fig_price_trends(df) ==
  LET monthly_price == groupby_mean(df, <<"Month", "Destination">>)
  IN Fig("line", [i \in 1..Len(monthly_price) |->
       [x |-> monthly_price[i].key[1], y |-> monthly_price[i].Price,
        color |-> monthly_price[i].key[2]]])

\* (variant: grouped over the whole table)
avg_price_stops_unfiltered(df, fd) == groupby_mean(df, <<"Total_Stops">>)

\* avg_price_stops = filtered_data.groupby("Total_Stops")["Price"].mean()
avg_price_stops(df, fd) == groupby_mean(fd, <<"Total_Stops">>)

\* px.bar(avg_price_stops, x="Total_Stops", y="Price", color="Total_Stops")
fig_avg_price(df, fd) ==
  LET t == avg_price_stops(df, fd)
  IN Fig("bar", [i \in 1..Len(t) |->
       [x |-> t[i].key[1], y |-> t[i].Price, color |-> t[i].key[1]]])

\* px.pie(filtered_data, names="Source")
fig_source_dist(fd) ==
  Fig("pie", [i \in 1..Len(fd) |-> [names |-> fd[i].Source]])

\* (variant: grouped over the filtered rows)
price_by_source_filtered(df, fd) == groupby_mean(fd, <<"Source">>)

\* price_by_source = df.groupby("Source")["Price"].mean()
price_by_source(df, fd) == groupby_mean(df, <<"Source">>)

\* px.bar(price_by_source, x="Source", y="Price", color="Source")
fig_price_by_source(df, fd) ==
  LET t == price_by_source(df, fd)
  IN Fig("bar", [i \in 1..Len(t) |->
       [x |-> t[i].key[1], y |-> t[i].Price, color |-> t[i].key[1]]])

\* px.bar over df.groupby(['Airline', 'Total_Stops'])['Price'].mean()
fig_price_airline_stops(df) ==
  LET t == groupby_mean(df, <<"Airline", "Total_Stops">>)
  IN Fig("bar", [i \in 1..Len(t) |->
       [x |-> t[i].key[1], y |-> t[i].Price, color |-> t[i].key[2]]])

\* px.box(df, x="Hour_of_Day", y="Price")
fig_price_time(df) ==
  Fig("box", [i \in 1..Len(df) |-> [x |-> df[i].Hour_of_Day, y |-> df[i].Price]])

\* px.pie(df, names="Route")
fig_route_dist(df) ==
  Fig("pie", [i \in 1..Len(df) |-> [names |-> df[i].Route]])

\* px.scatter(filtered_data, x="Duration", y="Price", color="Airline",
\*            hover_data=["Source", "Destination"])
fig_duration_price(fd) ==
  Fig("scatter", [i \in 1..Len(fd) |->
    [x |-> fd[i].Duration, y |-> fd[i].Price, color |-> fd[i].Airline,
     hover_data |-> <<fd[i].Source, fd[i].Destination>>]])

\* A heading followed by st.plotly_chart(fig); the chart is labelled by the
\* figure's title.
Chart(heading, title, fig) ==
  << El("subheader", heading, <<>>), El("plotly_chart", title, fig) >>

\* (variant: the route chart left out)
Charts_without_route(df, df2, df3, fd) ==
  Chart("Price Distribution by Airline", "Price Distribution by Airline",
        fig_price_dist(df))
  \o Chart("Price Trends by Destination", "Price Trends by Destination",
        fig_price_trends(df2))
  \o Chart("Average Price by Total Stops", "Average Price by Total Stops",
        fig_avg_price(df2, fd))
  \o Chart("Distribution of Flights by Source",
        "Flight Distribution by Source City", fig_source_dist(fd))
  \o Chart("Price by Source City", "Average Price by Source City",
        fig_price_by_source(df2, fd))
  \o Chart("Price by Airline and Total Stops",
        "Price by Airline and Total Stops", fig_price_airline_stops(df2))
  \o Chart("Price Distribution by Time of Day",
        "Price Distribution by Time of Day", fig_price_time(df3))
  \o Chart("Duration vs Price", "Duration vs Price by Airline",
        fig_duration_price(fd))

\* Lines 72-171: the charts in the order the script renders them.  df is the
\* loaded table, df2 the table once Month is added, df3 once Hour_of_Day is
\* added, fd the filtered rows.
Charts(df, df2, df3, fd) ==
  Chart("Price Distribution by Airline", "Price Distribution by Airline",
        fig_price_dist(df))
  \o Chart("Price Trends by Destination", "Price Trends by Destination",
        fig_price_trends(df2))
  \o Chart("Average Price by Total Stops", "Average Price by Total Stops",
        fig_avg_price(df2, fd))
  \o Chart("Distribution of Flights by Source",
        "Flight Distribution by Source City", fig_source_dist(fd))
  \o Chart("Price by Source City", "Average Price by Source City",
        fig_price_by_source(df2, fd))
  \o Chart("Price by Airline and Total Stops",
        "Price by Airline and Total Stops", fig_price_airline_stops(df2))
  \o Chart("Price Distribution by Time of Day",
        "Price Distribution by Time of Day", fig_price_time(df3))
  \o Chart("Flights by Route", "Flight Distribution by Route",
        fig_route_dist(df3))
  \o Chart("Duration vs Price", "Duration vs Price by Airline",
        fig_duration_price(fd))

\* main(): the elements of one run and the table as the run leaves it.
\* loaded is what load_data() handed over, s the values of the select boxes.
main(loaded, s, today) ==
  LET df == loaded.value
      top == << El("title", "Flight Dashboard", <<>>),
                El("write",
                   "This dashboard displays the flight data insights and allows stakeholders to filter and search the records.",
                   <<>>) >> \o loaded.elements
  IN IF empty(df)
       THEN [out |-> Append(top, El("warning",
               "No data to display. Please ensure the dataset is processed and available.",
               <<>>)),
             df |-> df]
       ELSE LET fd == filtered_data(df, s)
                df2 == with_month(df, today)
                df3 == with_hour(df2, today)
            IN [out |-> top \o Preview(df) \o Sidebar(df, s)
                        \o FilteredTable(fd, s) \o Charts(df, df2, df3, fd)
                        \o << El("sidebar.markdown",
                                 "This dashboard provides insights into flight data.",
                                 <<>>) >>,
                df |-> df3]

\* ------------------------------------------------------------ the system

\* Every select box starts at its first option.
FirstOptions == [airline |-> "All", source |-> "All", destination |-> "All"]

Init ==
  /\ file \in Files
  /\ cache = NoEntry
  /\ ran = [s \in Sessions |-> FALSE]
  /\ sel = [s \in Sessions |-> FirstOptions]
  /\ out = [s \in Sessions |-> <<>>]

\* One execution of the script, top to bottom, for session s with the select
\* boxes at newsel.
ScriptRun(s, newsel) ==
  \E today \in Today :
    LET r == main(load_data(cache, file), newsel, today)
    IN /\ cache' = cache_after_run(cache, file, r.df)
       /\ out' = [out EXCEPT ![s] = r.out]
       /\ sel' = [sel EXCEPT ![s] = newsel]
       /\ ran' = [ran EXCEPT ![s] = TRUE]
       /\ UNCHANGED file

\* The options the page of session s offers in the select box labelled l
\* (none when the box was not rendered).
Offered(s, l) ==
  LET at == {i \in 1..Len(out[s]) :
               out[s][i].kind = "sidebar.selectbox" /\ out[s][i].label = l}
  IN IF at = {} THEN {}
     ELSE LET o == out[s][CHOOSE i \in at : TRUE].data.options
          IN {o[j] : j \in 1..Len(o)}

\* A browser opens the app: the first run of the session.
Connect(s) == ~ran[s] /\ ScriptRun(s, FirstOptions)

\* The user asks for a rerun without touching a widget.
Rerun(s) == ran[s] /\ ScriptRun(s, sel[s])

\* The user picks another option in a select box; the script reruns.
SelectAirline(s, v) ==
  /\ ran[s] /\ v \in Offered(s, "Select Airline") /\ v # sel[s].airline
  /\ ScriptRun(s, [sel[s] EXCEPT !.airline = v])

SelectSource(s, v) ==
  /\ ran[s] /\ v \in Offered(s, "Select Source City") /\ v # sel[s].source
  /\ ScriptRun(s, [sel[s] EXCEPT !.source = v])

SelectDestination(s, v) ==
  /\ ran[s] /\ v \in Offered(s, "Select Destination City")
  /\ v # sel[s].destination
  /\ ScriptRun(s, [sel[s] EXCEPT !.destination = v])

Values == {Lex[i] : i \in 1..Len(Lex)}

Next ==
  \E s \in Sessions :
    \/ Connect(s)
    \/ Rerun(s)
    \/ \E v \in Values : SelectAirline(s, v)
    \/ \E v \in Values : SelectSource(s, v)
    \/ \E v \in Values : SelectDestination(s, v)

Spec == Init /\ [][Next]_vars

\* ------------------------------------------------------------ properties

\* The dataset as loaded: the sheet's rows, each with its row number.
Dataset == [i \in 1..Len(file.sheet) |-> [index |-> i - 1] @@ file.sheet[i]]

\* Session s shows a page rendered from a non-empty dataset.
Rendered(s) == ran[s] /\ file.exists /\ Len(file.sheet) > 0

\* Position in the page of session s of the first element of a kind and label.
At(s, kind, label) ==
  CHOOSE i \in 1..Len(out[s]) :
    /\ out[s][i].kind = kind /\ out[s][i].label = label
    /\ \A j \in 1..(i - 1) : ~(out[s][j].kind = kind /\ out[s][j].label = label)

\* The table session s shows for st.dataframe(name).
Table(s, name) == out[s][At(s, "dataframe", name)].data

\* The figure session s shows under a heading.
ChartUnder(s, heading) == out[s][At(s, "subheader", heading) + 1].data

\* The select box of session s with a label.
Box(s, label) == out[s][At(s, "sidebar.selectbox", label)].data

\* The kinds of the elements of a page, in order.
Kinds(page) == [i \in 1..Len(page) |-> page[i].kind]

\* The charts of a page of a given plot type.
ChartsOfType(page, type) ==
  {i \in 1..Len(page) : page[i].kind = "plotly_chart" /\ page[i].data.type = type}

NumCharts(page) == Cardinality({i \in 1..Len(page) : page[i].kind = "plotly_chart"})

\* C1: the filtered table holds exactly the dataset rows that pass the three
\* tests (column equals the selection, or the selection is "All"), each once,
\* in dataset order; with all three selections at "All" it is the dataset.
C1_FilterExact ==
  \A s \in Sessions : Rendered(s) =>
    LET fd == Table(s, "filtered_data")
        pass(r) == /\ (r.Airline = sel[s].airline \/ sel[s].airline = "All")
                   /\ (r.Source = sel[s].source \/ sel[s].source = "All")
                   /\ (r.Destination = sel[s].destination
                       \/ sel[s].destination = "All")
    IN /\ \A k \in 1..Len(fd) :
            /\ fd[k].index + 1 \in 1..Len(Dataset)
            /\ fd[k] = Dataset[fd[k].index + 1]
       /\ {fd[k].index + 1 : k \in 1..Len(fd)}
            = {i \in 1..Len(Dataset) : pass(Dataset[i])}
       /\ \A k, l \in 1..Len(fd) : k < l => fd[k].index < fd[l].index
       /\ (sel[s] = FirstOptions => fd = Dataset)

\* A destination is selected and the filter keeps one row and drops another.
C1_Witness ==
  \E s \in Sessions :
    /\ Rendered(s) /\ sel[s].destination # "All"
    /\ Len(Table(s, "filtered_data")) > 0
    /\ Len(Table(s, "filtered_data")) < Len(Dataset)

\* C2: with no dataset file a run shows the title, the introduction, the
\* "Processed dataset not found" error and the "No data to display" warning
\* and nothing else: no preview, no select box, no table, no chart.
C2_MissingFile ==
  \A s \in Sessions : (ran[s] /\ ~file.exists) =>
    /\ Kinds(out[s]) = <<"title", "write", "error", "warning">>
    /\ out[s][3].label
         = "Processed dataset not found. Please run the processing script first."
    /\ out[s][4].label
         = "No data to display. Please ensure the dataset is processed and available."
    /\ \A i \in 1..Len(out[s]) :
         out[s][i].kind \notin
           {"dataframe", "sidebar.title", "sidebar.selectbox", "plotly_chart"}

\* Both sessions have run without a dataset file (the later one is served
\* from the cache).
C2_Witness ==
  /\ ~file.exists /\ cache.cached
  /\ \A s \in Sessions : ran[s]

C4_OutputDependsOnSelectionsOnly ==
  /\ \A s \in Sessions : Rendered(s) =>
       /\ out[s][At(s, "dataframe", "filtered_data") - 1].data
            = <<sel[s].airline, sel[s].source, sel[s].destination>>
       /\ Box(s, "Select Airline").value = sel[s].airline
       /\ Box(s, "Select Source City").value = sel[s].source
       /\ Box(s, "Select Destination City").value = sel[s].destination
  /\ \A s, t \in Sessions :
       (ran[s] /\ ran[t] /\ sel[s] = sel[t]) => out[s] = out[t]
  /\ cache.cached =>
       /\ cache.value = Dataset
       /\ \A i \in 1..Len(cache.value) :
            /\ cache.value[i].Date_of_Journey.dtype = "object"
            /\ cache.value[i].Dep_Time.dtype = "object"
            /\ "Month" \notin DOMAIN cache.value[i]
            /\ "Hour_of_Day" \notin DOMAIN cache.value[i]

\* Two sessions have arrived at the same selections, not the initial ones.
C4_Witness ==
  /\ \A s \in Sessions : Rendered(s)
  /\ sel[1] = sel[2] /\ sel[1] # FirstOptions
  /\ cache.cached

\* The headings of the charts built from the whole dataset, and of those
\* built from the filtered rows.
WholeDatasetCharts ==
  {"Price Distribution by Airline", "Price Trends by Destination",
   "Price by Source City", "Price by Airline and Total Stops",
   "Price Distribution by Time of Day", "Flights by Route"}

FilteredCharts ==
  {"Average Price by Total Stops", "Distribution of Flights by Source",
   "Duration vs Price"}

\* C5: for one dataset, any two pages agree on the preview and on the six
\* whole-dataset charts; the tables and charts on which they differ are
\* among the filtered table and the three filtered charts.
C5_SelectionsDoNotReachWholeCharts ==
  \A s, t \in Sessions : (Rendered(s) /\ Rendered(t)) =>
    /\ Table(s, "df") = Table(t, "df")
    /\ \A h \in WholeDatasetCharts : ChartUnder(s, h) = ChartUnder(t, h)
    /\ Len(out[s]) = Len(out[t])
    /\ \A i \in 1..Len(out[s]) :
         (out[s][i].kind \in {"dataframe", "plotly_chart"}
            /\ out[s][i] # out[t][i]) =>
           \/ i = At(s, "dataframe", "filtered_data")
           \/ \E h \in FilteredCharts : i = At(s, "subheader", h) + 1

\* Two pages of one dataset under different selections whose filtered tables
\* and filtered charts differ.
C5_Witness ==
  \E s, t \in Sessions :
    /\ Rendered(s) /\ Rendered(t) /\ sel[s] # sel[t]
    /\ Table(s, "filtered_data") # Table(t, "filtered_data")
    /\ ChartUnder(s, "Average Price by Total Stops")
         # ChartUnder(t, "Average Price by Total Stops")
    /\ Len(Table(s, "filtered_data")) > 0
    /\ Len(Table(t, "filtered_data")) > 0

\* The select boxes with the column each lists and the selection each holds.
Boxes(s) ==
  { [label |-> "Select Airline", col |-> "Airline", value |-> sel[s].airline],
    [label |-> "Select Source City", col |-> "Source", value |-> sel[s].source],
    [label |-> "Select Destination City", col |-> "Destination",
     value |-> sel[s].destination] }

\* First dataset row holding v in column col.
FirstRow(col, v) ==
  CHOOSE i \in 1..Len(Dataset) :
    Dataset[i][col] = v /\ \A j \in 1..(i - 1) : Dataset[j][col] # v

\* C6: each select box lists "All" first, then every value of its column in
\* the whole dataset, once each, by first appearance; the lists are the same
\* in every session whatever is selected, and a selection other than "All"
\* is the column value of some dataset row.
C6_Options ==
  \A s \in Sessions : Rendered(s) =>
    \A b \in Boxes(s) :
      LET o == Box(s, b.label).options
      IN /\ Len(o) >= 1 /\ o[1] = "All"
         /\ {o[k] : k \in 2..Len(o)}
              = {Dataset[i][b.col] : i \in 1..Len(Dataset)}
         /\ \A k, l \in 2..Len(o) : k < l =>
              (o[k] # o[l] /\ FirstRow(b.col, o[k]) < FirstRow(b.col, o[l]))
         /\ \A t \in Sessions : Rendered(t) => Box(t, b.label).options = o
         /\ (b.value # "All" =>
               \E i \in 1..Len(Dataset) : Dataset[i][b.col] = b.value)

\* The dataset repeats a value in a filter column, and the sessions hold
\* different selections, one of them not "All".
C6_Witness ==
  /\ \A s \in Sessions : Rendered(s)
  /\ sel[1] # sel[2] /\ sel[1].source # "All"
  /\ \E i, j \in 1..Len(Dataset) : i < j /\ Dataset[i].Source = Dataset[j].Source
  /\ \E i, j \in 1..Len(Dataset) : Dataset[i].Airline # Dataset[j].Airline

\* Sum of Price over the rows of a table at the positions in a set.
RECURSIVE PriceSum(_, _)
PriceSum(table, at) ==
  IF at = {} THEN 0
  ELSE LET i == CHOOSE x \in at : TRUE
       IN table[i].Price + PriceSum(table, at \ {i})

\* C7: the "Average Price by Total Stops" chart has exactly one bar for each
\* Total_Stops value of the filtered rows, no other bar, and each bar's
\* height times the number of filtered rows with that value is the sum of
\* their prices.
C7_AveragePriceByStops ==
  \A s \in Sessions : Rendered(s) =>
    LET fd == Table(s, "filtered_data")
        bars == ChartUnder(s, "Average Price by Total Stops").points
        rowsOf(v) == {i \in 1..Len(fd) : fd[i].Total_Stops = v}
    IN /\ \A i \in 1..Len(fd) :
            Cardinality({k \in 1..Len(bars) : bars[k].x = fd[i].Total_Stops}) = 1
       /\ \A k \in 1..Len(bars) :
            /\ rowsOf(bars[k].x) # {}
            /\ bars[k].y.den > 0
            /\ bars[k].y.num * Cardinality(rowsOf(bars[k].x))
                 = PriceSum(fd, rowsOf(bars[k].x)) * bars[k].y.den

\* The filter keeps some rows and drops every row of some Total_Stops value.
C7_Witness ==
  \E s \in Sessions :
    /\ Rendered(s)
    /\ Len(Table(s, "filtered_data")) > 0
    /\ \E i \in 1..Len(Dataset) :
         \A k \in 1..Len(Table(s, "filtered_data")) :
           Table(s, "filtered_data")[k].Total_Stops # Dataset[i].Total_Stops

====
